---- MODULE Spec2Model ----
(***************************************************************************)
(* Model of the wifi-connect command loop (src/src/network.rs) with its    *)
(* producers (src/src/server.rs, the timeout timer and the signal bridge). *)
(* The network-management service is the environment: every call into it   *)
(* has its outcome chosen with \E.                                          *)
(***************************************************************************)
EXTENDS Integers, Sequences, FiniteSets, TLC

\* ------------------------------------------------------------------ bounds
\* total number of commands the producers put on the command channel
MaxCmds == 3
\* longest list of access points handed to the cache merge on its own
MaxLen == 2
\* longest pairing code handed to get_config on its own
MaxCode == 9
\* longest timeout handed to the connectivity probe on its own
MaxTimeout == 3

\* --------------------------------------------------------------- constants
retries_allowed == 10
connectivity_timeout == 20
passphrase_width == 8

\* ------------------------------------------------------------ data values
None == 0
own_ssid == "portal"
Undecodable == "?"
\* SSIDs a Connect request carries; "cafe" is never visible in a scan
ConnectSSIDs == {"home", "cafe"}

\* an access point as the service reports it: SSID and security flags
AP(s, flags) == [ssid |-> s, security |-> flags]

\* what one read of the access points may return: nothing, only entries the
\* filter drops, one network, the same SSID seen with two security settings
RawLists ==
    { <<>>,
      << AP(own_ssid, {}) >>,
      << AP("home", {}) >>,
      << AP(Undecodable, {"WEP"}), AP("home", {"WPA2"}) >>,
      << AP("home", {}), AP(own_ssid, {}), AP("home", {"WPA2"}) >> }

\* seq is the position at which the command entered the command channel; the
\* sender fills it in
NetworkCommand ==
    [cmd : {"EnableAp", "DisableAp", "Current", "HasConnection", "Activate", "Timeout", "Exit"},
     ssid : {""}, seq : 0..MaxCmds]
    \cup [cmd : {"Connect"}, ssid : ConnectSSIDs, seq : 0..MaxCmds]

Cmd(c) == [cmd |-> c, ssid |-> "", seq |-> 0]
NoCmd == [cmd |-> "None", ssid |-> "", seq |-> 0]
\* what one execution observed: the filtered fresh scan, the responses it
\* sent, the branch it took, the connectivity probe, what became of a join's
\* half-made profile, the call whose error ended it, the calls made on the
\* hotspot profile to stop it
NoOut == [scan |-> <<>>, reply |-> <<>>, how |-> "none", probe |-> "none",
          half |-> "none", err |-> "none", teardown |-> <<>>]
\* no function is applied on its own while the command loop runs
NoCall == [fn |-> "none", args |-> <<>>, ret |-> <<>>, returned |-> FALSE]

VARIABLES
    config,             \* Config: the activity timeout
    pc,                 \* position of the orchestrator thread
    network_rx,         \* command channel, oldest first
    server_tx,          \* response channel, oldest first
    exit_tx,            \* results sent on the exit channel
    portal_connection,  \* NetworkCommandHandler.portal_connection: None or profile id
    dnsmasq,            \* NetworkCommandHandler.dnsmasq: None or process id
    access_points,      \* NetworkCommandHandler.access_points
    activated,          \* NetworkCommandHandler.activated
    loop_result,        \* what run_loop returned: "none", "ok", "err"
    hotspots,           \* service: hotspot profiles made by this process, id -> state
    stations,           \* service: number of non-portal wireless profiles per SSID
    helpers,            \* helper processes started by this process and still running
    nprofiles,          \* hotspot profiles created so far
    nprocs,             \* helper processes started so far
    http,               \* position of the single HTTP handler thread
    timer,              \* activity-timeout thread: "off", "armed", "fired"
    trap,               \* signal bridge thread: "waiting", "sent"
    nsent,              \* commands sent so far
    cur,                \* command being executed, or executed last
    prev,               \* kind of the command executed before cur
    out,                \* what the execution of cur observed and replied
    prevScan,           \* the filtered fresh scan of the Activate before cur
    call                \* a function applied on its own: name, arguments, result

vars == << config, pc, network_rx, server_tx, exit_tx, portal_connection, dnsmasq, access_points,
           activated, loop_result, hotspots, stations, helpers, nprofiles, nprocs,
           http, timer, trap, nsent, cur, prev, out, prevScan, call >>

\* the fields of NetworkCommandHandler and the service state it acts on
handler == << portal_connection, dnsmasq, access_points, activated >>
service == << hotspots, stations, helpers >>
alloc == << nprofiles, nprocs >>

\* ------------------------------------------------------- pure functions

\* mutant: the filter drops the undecodable SSIDs only
retain_keeps_own_ssid(list) ==
    SelectSeq(list, LAMBDA ap : ap.ssid # Undecodable)

\* access_points.retain(..): drop undecodable SSIDs and the portal's own SSID
retain(list) ==
    SelectSeq(list, LAMBDA ap : ap.ssid # Undecodable /\ ap.ssid # own_ssid)

Ok(v) == [ok |-> TRUE, val |-> v]
Err == [ok |-> FALSE, val |-> <<>>]

\* One outcome of wifi_device.get_access_points(): Err or Ok(raw list).
\* reads[i] is what the i-th read of one call of get_access_points_impl returns.
ReadOutcomes == { Ok(l) : l \in RawLists } \cup {Err}
EmptyReads == {0, 1, retries_allowed}
Reads ==
    { [i \in 1..retries_allowed |-> IF i <= n THEN e ELSE final] :
        n \in EmptyReads,
        e \in {Ok(<<>>), Ok(<< AP(own_ssid, {}) >>)},
        final \in ReadOutcomes }

RECURSIVE get_access_points_loop(_, _)
get_access_points_loop(reads, retries) ==
    IF retries < retries_allowed
    THEN LET r == reads[retries + 1]
         IN  IF ~r.ok THEN Err
             ELSE IF retain(r.val) # <<>> THEN Ok(retain(r.val))
             ELSE get_access_points_loop(reads, retries + 1)
    ELSE Ok(<<>>)

get_access_points_impl(reads) == get_access_points_loop(reads, 0)

\* mutant: the merge loop runs over the fresh list instead of the cache
merge_over_fresh(fresh, cache) ==
    fresh \o SelectSeq(fresh, LAMBDA x : \E i \in 1..Len(fresh) : fresh[i].ssid = x.ssid)

\* mutant: every cached entry is appended, found in the fresh list or not
merge_keeps_vanished(fresh, cache) == fresh \o cache

\* for x in &self.access_points: x is pushed when new_access_points, as grown
\* so far, holds an entry with x's SSID
RECURSIVE merge_loop(_, _, _)
merge_loop(new_access_points, cache, i) ==
    IF i > Len(cache) THEN new_access_points
    ELSE LET x == cache[i]
             found == \E j \in 1..Len(new_access_points) :
                          new_access_points[j].ssid = x.ssid
         IN  merge_loop(IF found THEN Append(new_access_points, x)
                        ELSE new_access_points, cache, i + 1)

\* NetworkCommandHandler::get_access_points after the scan: the fresh list,
\* then the cached entries the loop pushes
merge(fresh, cache) == merge_loop(fresh, cache, 1)

get_network_security(ap) ==
    IF "ENTERPRISE" \in ap.security THEN "enterprise"
    ELSE IF "WPA2" \in ap.security \/ "WPA" \in ap.security THEN "wpa"
    ELSE IF "WEP" \in ap.security THEN "wep"
    ELSE "none"

\* mutant: the WEP test comes before the WPA test
init_access_point_credentials_wep_first(access_point, identity, passphrase) ==
    IF "ENTERPRISE" \in access_point.security
    THEN [type |-> "Enterprise", identity |-> identity, passphrase |-> passphrase]
    ELSE IF "WEP" \in access_point.security
    THEN [type |-> "Wep", passphrase |-> passphrase]
    ELSE IF "WPA2" \in access_point.security \/ "WPA" \in access_point.security
    THEN [type |-> "Wpa", passphrase |-> passphrase]
    ELSE [type |-> "None"]

init_access_point_credentials(access_point, identity, passphrase) ==
    IF "ENTERPRISE" \in access_point.security
    THEN [type |-> "Enterprise", identity |-> identity, passphrase |-> passphrase]
    ELSE IF "WPA2" \in access_point.security \/ "WPA" \in access_point.security
    THEN [type |-> "Wpa", passphrase |-> passphrase]
    ELSE IF "WEP" \in access_point.security
    THEN [type |-> "Wep", passphrase |-> passphrase]
    ELSE [type |-> "None"]

get_network_info(ap) == [ssid |-> ap.ssid, security |-> get_network_security(ap)]

get_networks(aps) == [i \in 1..Len(aps) |-> get_network_info(aps[i])]

\* index of the first access point with this SSID, 0 when there is none
find_access_point(aps, ssid) ==
    IF \E i \in 1..Len(aps) : aps[i].ssid = ssid
    THEN CHOOSE i \in 1..Len(aps) :
            aps[i].ssid = ssid /\ \A j \in 1..(i - 1) : aps[j].ssid # ssid
    ELSE 0

\* polls[i] is what the i-th call of manager.get_connectivity() returns
Connectivity == {"Full", "Limited", "None", "Err"}
Polls ==
    { [i \in 1..(connectivity_timeout + 1) |-> IF i <= n THEN "None" ELSE final] :
        n \in {0, 1, connectivity_timeout, connectivity_timeout + 1}, final \in Connectivity }

RECURSIVE wait_for_connectivity_loop(_, _, _)
wait_for_connectivity_loop(polls, timeout, total_time) ==
    LET connectivity == polls[total_time + 1]
    IN  IF connectivity = "Err" THEN Err
        ELSE IF connectivity \in {"Full", "Limited"} THEN Ok(TRUE)
        ELSE IF total_time >= timeout THEN Ok(FALSE)
        ELSE wait_for_connectivity_loop(polls, timeout, total_time + 1)

wait_for_connectivity(polls, timeout) == wait_for_connectivity_loop(polls, timeout, 0)

\* mutant: the mode test is turned round, only hotspot profiles count
has_connection_defined_only_ap == DOMAIN hotspots # {}

\* has_connection_defined: some wireless profile whose mode is not "ap"
has_connection_defined == \E s \in DOMAIN stations : stations[s] > 0

\* ------------------------------------------------------ service calls

\* wifi_device.create_hotspot succeeded: a new activated hotspot profile
create_hotspot(hs, id) ==
    [i \in DOMAIN hs \cup {id} |-> IF i = id THEN "activated" ELSE hs[i]]

delete_profile(hs, id) == [i \in DOMAIN hs \ {id} |-> hs[i]]

deactivate_profile(hs, id) ==
    [i \in DOMAIN hs |-> IF i = id THEN "deactivated" ELSE hs[i]]

\* connection.deactivate()?; connection.delete()?; the second call is not
\* reached when the first fails
stop_portal_impl(hs, connection, deactivateOk, deleteOk) ==
    IF ~deactivateOk
    THEN [ok |-> FALSE, hotspots |-> hs, calls |-> << "deactivate" >>]
    ELSE IF ~deleteOk
    THEN [ok |-> FALSE, hotspots |-> deactivate_profile(hs, connection),
          calls |-> << "deactivate", "delete" >>]
    ELSE [ok |-> TRUE, hotspots |-> delete_profile(hs, connection),
          calls |-> << "deactivate", "delete" >>]

stop_portal(hs, connection, deactivateOk, deleteOk) ==
    stop_portal_impl(hs, connection, deactivateOk, deleteOk)

\* mutant: the profile handle is cleared only when stopping the portal succeeded
_stop_keeps_failed_handle(deactivateOk, deleteOk) ==
    /\ helpers' = IF dnsmasq # None THEN helpers \ {dnsmasq} ELSE helpers
    /\ dnsmasq' = None
    /\ hotspots' = IF portal_connection # None
                   THEN stop_portal_impl(hotspots, portal_connection,
                                         deactivateOk, deleteOk).hotspots
                   ELSE hotspots
    /\ portal_connection' = IF deactivateOk /\ deleteOk THEN None ELSE portal_connection

\* NetworkCommandHandler::_stop: kill the helper, stop the portal, clear both
\* handles; every error is dropped. Child::kill sends SIGKILL to a child that
\* is never reaped; it fails only when the child is already gone, so the
\* helper is not running afterwards whatever kill() returns.
_stop(deactivateOk, deleteOk) ==
    /\ helpers' = IF dnsmasq # None THEN helpers \ {dnsmasq} ELSE helpers
    /\ dnsmasq' = None
    /\ hotspots' = IF portal_connection # None
                   THEN stop_portal_impl(hotspots, portal_connection,
                                         deactivateOk, deleteOk).hotspots
                   ELSE hotspots
    /\ portal_connection' = None

\* what deactivate() and delete() may return; they are called only when a
\* profile handle is held
StopCalls == IF portal_connection # None THEN BOOLEAN ELSE {TRUE}

ScanOutcomes == { get_access_points_impl(r) : r \in Reads }
ProbeOutcomes == { wait_for_connectivity(p, connectivity_timeout) : p \in Polls }
DeviceStates == {"Activated", "Disconnected"}

\* ------------------------------------------------------------ start-up

Boot ==
    /\ pc = "new"
    /\ network_rx = <<>>
    /\ server_tx = <<>>
    /\ exit_tx = <<>>
    /\ portal_connection = None
    /\ dnsmasq = None
    /\ access_points = <<>>
    /\ activated = FALSE
    /\ loop_result = "none"
    /\ hotspots = [i \in {} |-> "activated"]
    /\ stations \in { [s \in {"home", "cafe"} |-> 0],
                      [s \in {"home", "cafe"} |-> IF s = "home" THEN 1 ELSE 0] }
    /\ helpers = {}
    /\ nprofiles = 0
    /\ nprocs = 0
    /\ http = "off"
    /\ timer = "off"
    /\ trap = "waiting"
    /\ nsent = 0
    /\ cur = NoCmd
    /\ prev = "None"
    /\ out = NoOut
    /\ prevScan = <<>>

Start ==
    \* a run with activity_timeout = 0 is a run in which the timer never fires
    /\ config = [activity_timeout |-> 30]
    /\ Boot

Init == Start /\ call = NoCall

\* NetworkCommandHandler::new, and process_network_commands when it fails
new ==
    /\ pc = "new"
    /\ \E deviceOk \in BOOLEAN, defined \in {Ok(has_connection_defined), Err},
          createOk \in BOOLEAN, dnsmasqOk \in BOOLEAN, scan \in ScanOutcomes :
        LET raise == deviceOk /\ defined.ok /\ ~defined.val
            profileMade == raise /\ createOk
            procMade == profileMade /\ dnsmasqOk
            failed == \/ ~deviceOk
                      \/ ~defined.ok
                      \/ (raise /\ ~procMade)
                      \/ ~scan.ok
        IN  /\ hotspots' = IF profileMade THEN create_hotspot(hotspots, nprofiles + 1)
                           ELSE hotspots
            /\ nprofiles' = IF profileMade THEN nprofiles + 1 ELSE nprofiles
            /\ helpers' = IF procMade THEN helpers \cup {nprocs + 1} ELSE helpers
            /\ nprocs' = IF procMade THEN nprocs + 1 ELSE nprocs
            /\ IF failed
               THEN /\ pc' = "done"
                    /\ exit_tx' = Append(exit_tx, "err")
                    /\ UNCHANGED << portal_connection, dnsmasq, access_points, http, timer >>
               ELSE /\ pc' = "recv"
                    /\ exit_tx' = exit_tx
                    /\ portal_connection' = IF profileMade THEN nprofiles + 1 ELSE None
                    /\ dnsmasq' = IF procMade THEN nprocs + 1 ELSE None
                    /\ access_points' = scan.val
                    /\ http' = "idle"
                    /\ timer' = IF config.activity_timeout = 0 THEN "off" ELSE "armed"
    /\ UNCHANGED << config, call, network_rx, server_tx, activated, loop_result, stations,
                    trap, nsent, cur, prev, out, prevScan >>

\* ------------------------------------------------------------ producers

\* network_tx.send(c): the receiver lives until the handler is dropped
send(c) ==
    /\ pc # "done"
    /\ nsent < MaxCmds
    /\ network_rx' = Append(network_rx, [c EXCEPT !.seq = nsent + 1])
    /\ nsent' = nsent + 1

orchestrator == << pc, server_tx, exit_tx, portal_connection, dnsmasq, access_points,
                   activated, loop_result, hotspots, stations, helpers, nprofiles,
                   nprocs, cur, prev, out, prevScan >>

spawn_trap_exit_signals ==
    /\ trap = "waiting"
    /\ send(Cmd("Exit"))
    /\ trap' = "sent"
    /\ UNCHANGED << config, call, orchestrator, http, timer >>

\* mutant: the timer thread sleeps and sends again
spawn_activity_timeout_repeats ==
    /\ timer = "armed"
    /\ send(Cmd("Timeout"))
    /\ timer' = "armed"
    /\ UNCHANGED << config, call, orchestrator, http, trap >>

spawn_activity_timeout ==
    /\ timer = "armed"
    /\ send(Cmd("Timeout"))
    /\ timer' = "fired"
    /\ UNCHANGED << config, call, orchestrator, http, trap >>

http_networks ==
    /\ http = "idle"
    /\ send(Cmd("Activate"))
    /\ http' = "networks"
    /\ UNCHANGED << config, call, orchestrator, timer, trap >>

\* mutant: the handler sends its command without holding the request lock
http_current_without_lock ==
    /\ http \in {"idle", "networks", "has_connection"}
    /\ send(Cmd("Current"))
    /\ http' = "current"
    /\ UNCHANGED << config, call, orchestrator, timer, trap >>

http_current ==
    /\ http = "idle"
    /\ send(Cmd("Current"))
    /\ http' = "current"
    /\ UNCHANGED << config, call, orchestrator, timer, trap >>

http_has_connection ==
    /\ http = "idle"
    /\ send(Cmd("HasConnection"))
    /\ http' = "has_connection"
    /\ UNCHANGED << config, call, orchestrator, timer, trap >>

http_connect ==
    /\ http = "idle"
    /\ \E ssid \in ConnectSSIDs : send([cmd |-> "Connect", ssid |-> ssid, seq |-> 0])
    /\ UNCHANGED << config, call, orchestrator, http, timer, trap >>

http_enable_ap ==
    /\ http = "idle"
    /\ send(Cmd("EnableAp"))
    /\ UNCHANGED << config, call, orchestrator, http, timer, trap >>

http_disable_ap ==
    /\ http = "idle"
    /\ send(Cmd("DisableAp"))
    /\ UNCHANGED << config, call, orchestrator, http, timer, trap >>

\* restart_ap sends DisableAp, then EnableAp, holding the request lock
http_restart_ap ==
    /\ http = "idle"
    /\ nsent + 2 <= MaxCmds
    /\ send(Cmd("DisableAp"))
    /\ http' = "restart_ap"
    /\ UNCHANGED << config, call, orchestrator, timer, trap >>

http_restart_ap_enable ==
    /\ http = "restart_ap"
    /\ send(Cmd("EnableAp"))
    /\ http' = "idle"
    /\ UNCHANGED << config, call, orchestrator, timer, trap >>

\* the response variant each waiting handler matches on; any other one takes
\* its IncorrectCommand branch
Expected(h) ==
    CASE h = "networks" -> "Networks"
      [] h = "current" -> "Current"
      [] h = "has_connection" -> "HasConnection"
      [] OTHER -> "none"

\* request_state.server_rx.recv() of networks, current and has_connection;
\* the handler returns, with the body or with IncorrectCommand
http_recv ==
    /\ http \in {"networks", "current", "has_connection"}
    /\ server_tx # <<>>
    /\ server_tx' = Tail(server_tx)
    /\ http' = "idle"
    /\ UNCHANGED << config, call, pc, network_rx, exit_tx, handler, loop_result, service,
                    alloc, timer, trap, nsent, cur, prev, out, prevScan >>

\* mutant: a sender of the response channel outlives the orchestrator, so the
\* handler's receive never fails
http_recv_err_sender_kept ==
    /\ http \in {"networks", "current", "has_connection"}
    /\ server_tx = <<>>
    /\ FALSE
    /\ UNCHANGED vars

\* request_state.server_rx.recv() fails: the channel is empty and its only
\* sender went with the NetworkCommandHandler when process_network_commands
\* returned; exit_with_error sends the error on the exit channel and the
\* handler returns
http_recv_err ==
    /\ http \in {"networks", "current", "has_connection"}
    /\ server_tx = <<>>
    /\ pc = "done"
    /\ exit_tx' = Append(exit_tx, "err")
    /\ http' = "idle"
    /\ UNCHANGED << config, call, pc, network_rx, server_tx, handler, loop_result, service,
                    alloc, timer, trap, nsent, cur, prev, out, prevScan >>

\* --------------------------------------------------------- command loop

\* run_loop goes on to the next receive
continue == pc' = "recv" /\ loop_result' = loop_result

\* run_loop returns r ("ok" or "err"); run then calls stop
return(r) == pc' = "stopping" /\ loop_result' = r

\* mutant: the newest command of the channel is taken first
receive_network_command_newest_first ==
    /\ pc = "recv"
    /\ network_rx # <<>>
    /\ cur' = network_rx[Len(network_rx)]
    /\ network_rx' = SubSeq(network_rx, 1, Len(network_rx) - 1)
    /\ prev' = cur.cmd
    /\ prevScan' = IF cur.cmd = "Activate" THEN out.scan ELSE <<>>
    /\ out' = NoOut
    /\ pc' = "exec"
    /\ UNCHANGED << config, call, server_tx, exit_tx, handler, loop_result, service, alloc,
                    http, timer, trap, nsent >>

receive_network_command ==
    /\ pc = "recv"
    /\ network_rx # <<>>
    /\ cur' = Head(network_rx)
    /\ network_rx' = Tail(network_rx)
    /\ prev' = cur.cmd
    /\ prevScan' = IF cur.cmd = "Activate" THEN out.scan ELSE <<>>
    /\ out' = NoOut
    /\ pc' = "exec"
    /\ UNCHANGED << config, call, server_tx, exit_tx, handler, loop_result, service, alloc,
                    http, timer, trap, nsent >>

executing(c) == pc = "exec" /\ cur.cmd = c

\* what no command handler touches
frame == << config, call, exit_tx, http, timer, trap, nsent, network_rx, cur, prev, prevScan >>

\* the request_scan before create_portal changes nothing here: its error is
\* ignored and its result is not read
EnableAp ==
    /\ executing("EnableAp")
    /\ IF portal_connection = None
       THEN \E createOk \in BOOLEAN, dnsmasqOk \in BOOLEAN :
              IF ~createOk
              THEN /\ return("err")
                   /\ out' = [out EXCEPT !.how = "raise", !.err = "create_portal"]
                   /\ UNCHANGED << portal_connection, dnsmasq, hotspots, helpers, alloc >>
              ELSE /\ portal_connection' = nprofiles + 1
                   /\ hotspots' = create_hotspot(hotspots, nprofiles + 1)
                   /\ nprofiles' = nprofiles + 1
                   /\ IF ~dnsmasqOk
                      THEN /\ return("err")
                           /\ out' = [out EXCEPT !.how = "raise", !.err = "start_dnsmasq"]
                           /\ UNCHANGED << dnsmasq, helpers, nprocs >>
                      ELSE /\ dnsmasq' = nprocs + 1
                           /\ helpers' = helpers \cup {nprocs + 1}
                           /\ nprocs' = nprocs + 1
                           /\ out' = [out EXCEPT !.how = "raise"]
                           /\ continue
       ELSE /\ continue
            /\ out' = [out EXCEPT !.how = "noop"]
            /\ UNCHANGED << portal_connection, dnsmasq, hotspots, helpers, alloc >>
    /\ UNCHANGED << frame, server_tx, access_points, activated, stations >>

DisableAp ==
    /\ executing("DisableAp")
    /\ \E deactivateOk \in StopCalls, deleteOk \in StopCalls :
          /\ _stop(deactivateOk, deleteOk)
          /\ out' = [out EXCEPT
                       !.how = "stopped",
                       !.teardown = IF portal_connection # None
                                    THEN stop_portal_impl(hotspots, portal_connection,
                                                          deactivateOk, deleteOk).calls
                                    ELSE <<>>]
    /\ continue
    /\ UNCHANGED << frame, server_tx, access_points, activated, stations, alloc >>

\* server_tx.send fails only when the HTTP thread has dropped server_rx, which
\* it does not do while it serves requests
\* mutant: apmode reports that a hotspot profile is held
current_apmode_is_some ==
    /\ executing("Current")
    /\ \E state \in { Ok(d) : d \in DeviceStates } \cup {Err} :
         IF ~state.ok
         THEN /\ return("err")
              /\ UNCHANGED server_tx
              /\ out' = [out EXCEPT !.err = "get_state"]
         ELSE LET status == [type |-> "Current",
                             apmode |-> portal_connection # None,
                             connected |-> state.val = "Activated"]
              IN  /\ server_tx' = Append(server_tx, status)
                  /\ out' = [out EXCEPT !.how = state.val, !.reply = << status >>]
                  /\ continue
    /\ UNCHANGED << frame, handler, service, alloc >>

current ==
    /\ executing("Current")
    /\ \E state \in { Ok(d) : d \in DeviceStates } \cup {Err} :
         IF ~state.ok
         THEN /\ return("err")
              /\ UNCHANGED server_tx
              /\ out' = [out EXCEPT !.err = "get_state"]
         ELSE LET status == [type |-> "Current",
                             apmode |-> portal_connection = None,
                             connected |-> state.val = "Activated"]
              IN  /\ server_tx' = Append(server_tx, status)
                  /\ out' = [out EXCEPT !.how = state.val, !.reply = << status >>]
                  /\ continue
    /\ UNCHANGED << frame, handler, service, alloc >>

\* mutant: a failing has_connection_defined is answered as "no connection"
has_connection_swallows_error ==
    /\ executing("HasConnection")
    /\ \E defined \in {Ok(has_connection_defined), Err} :
         LET status == [type |-> "HasConnection", result |-> defined.ok /\ defined.val]
         IN  /\ server_tx' = Append(server_tx, status)
             /\ out' = [out EXCEPT !.how = "ok", !.reply = << status >>,
                                   !.err = IF defined.ok THEN "none"
                                           ELSE "has_connection_defined"]
             /\ continue
    /\ UNCHANGED << frame, handler, service, alloc >>

has_connection ==
    /\ executing("HasConnection")
    /\ \E defined \in {Ok(has_connection_defined), Err} :
         IF ~defined.ok
         THEN /\ return("err")
              /\ UNCHANGED server_tx
              /\ out' = [out EXCEPT !.err = "has_connection_defined"]
         ELSE LET status == [type |-> "HasConnection", result |-> defined.val]
              IN  /\ server_tx' = Append(server_tx, status)
                  /\ out' = [out EXCEPT !.how = "ok", !.reply = << status >>]
                  /\ continue
    /\ UNCHANGED << frame, handler, service, alloc >>

\* NetworkCommandHandler::get_access_points: the result is returned to the
\* caller; self.access_points is read and not assigned
get_access_points(scan) ==
    IF scan.ok THEN Ok(merge(scan.val, access_points)) ELSE Err

\* mutant: the cached list is sent first, the merged list after the scan
activate_replies_twice ==
    /\ executing("Activate")
    /\ activated' = TRUE
    /\ \E scan \in ScanOutcomes :
         LET got == get_access_points(scan)
             cached == [type |-> "Networks", networks |-> get_networks(access_points)]
         IN  IF ~got.ok
             THEN /\ return("err")
                  /\ server_tx' = Append(server_tx, cached)
                  /\ out' = [out EXCEPT !.err = "get_access_points", !.reply = << cached >>]
             ELSE LET networks == [type |-> "Networks", networks |-> get_networks(got.val)]
                  IN  /\ server_tx' = server_tx \o << cached, networks >>
                      /\ out' = [out EXCEPT !.how = "ok", !.scan = scan.val,
                                            !.reply = << cached, networks >>]
                      /\ continue
    /\ UNCHANGED << frame, portal_connection, dnsmasq, access_points, service, alloc >>

activate ==
    /\ executing("Activate")
    /\ activated' = TRUE
    /\ \E scan \in ScanOutcomes :
         LET got == get_access_points(scan)
         IN  IF ~got.ok
             THEN /\ return("err")
                  /\ UNCHANGED server_tx
                  /\ out' = [out EXCEPT !.err = "get_access_points"]
             ELSE LET networks == [type |-> "Networks", networks |-> get_networks(got.val)]
                  IN  /\ server_tx' = Append(server_tx, networks)
                      /\ out' = [out EXCEPT !.how = "ok", !.scan = scan.val,
                                            !.reply = << networks >>]
                      /\ continue
    /\ UNCHANGED << frame, portal_connection, dnsmasq, access_points, service, alloc >>

\* mutant: Timeout ends the loop without looking at the latch
Timeout_ignores_latch ==
    /\ executing("Timeout")
    /\ return("ok")
    /\ out' = [out EXCEPT !.how = "exit"]
    /\ UNCHANGED << frame, server_tx, handler, service, alloc >>

Timeout ==
    /\ executing("Timeout")
    /\ IF ~activated THEN return("ok") ELSE continue
    /\ out' = [out EXCEPT !.how = IF ~activated THEN "exit" ELSE "ignored"]
    /\ UNCHANGED << frame, server_tx, handler, service, alloc >>

\* mutant: Exit is suppressed by the latch the way Timeout is
Exit_unless_activated ==
    /\ executing("Exit")
    /\ IF ~activated THEN return("ok") ELSE continue
    /\ out' = [out EXCEPT !.how = IF ~activated THEN "exit" ELSE "ignored"]
    /\ UNCHANGED << frame, server_tx, handler, service, alloc >>

Exit ==
    /\ executing("Exit")
    /\ return("ok")
    /\ out' = [out EXCEPT !.how = "exit"]
    /\ UNCHANGED << frame, server_tx, handler, service, alloc >>

\* delete_connection_if_exists: every wireless profile with this SSID is asked
\* to be deleted and each deletion may fail (a failing get_connections deletes
\* nothing)
delete_connection_if_exists(ssid) ==
    { [stations |-> [stations EXCEPT ![ssid] = @ - k], hotspots |-> hotspots] :
        k \in 0..stations[ssid] }

ConnectionStates == {"Activated", "Deactivated"}

\* how connect leaves: r is "continue" (Ok(false)), "ok" (Ok(true)) or "err"
connect_end(r, connection, hs, st, o) ==
    /\ IF r = "continue" THEN continue ELSE return(r)
    /\ portal_connection' = connection
    /\ hotspots' = hs
    /\ stations' = st
    /\ nprofiles' = IF connection # None /\ connection # portal_connection
                    THEN nprofiles + 1 ELSE nprofiles
    /\ out' = o

\* mutant: a failing create_portal is logged and the loop goes on
connect_create_portal_logs_error(hs, st, o) ==
    \E createOk \in BOOLEAN :
        IF createOk
        THEN connect_end("continue", nprofiles + 1, create_hotspot(hs, nprofiles + 1), st, o)
        ELSE connect_end("continue", None, hs, st, [o EXCEPT !.err = "create_portal"])

\* the last statement of connect: create_portal(..)?, no helper is started
connect_create_portal(hs, st, o) ==
    \E createOk \in BOOLEAN :
        IF createOk
        THEN connect_end("continue", nprofiles + 1, create_hotspot(hs, nprofiles + 1), st, o)
        ELSE connect_end("err", None, hs, st, [o EXCEPT !.err = "create_portal"])

\* mutant: the probe's error is propagated with ? instead of being logged
connect_activated_probe_fatal(hs, st, o) ==
    \E probe \in ProbeOutcomes :
        connect_end(IF probe.ok THEN "ok" ELSE "err", None, hs, st,
                    [o EXCEPT !.how = "activated",
                              !.probe = IF ~probe.ok THEN "err"
                                        ELSE IF probe.val THEN "true" ELSE "false"])

\* the join returned ConnectionState::Activated: probe, log, return Ok(true)
connect_activated(hs, st, o) ==
    \E probe \in ProbeOutcomes :
        connect_end("ok", None, hs, st,
                    [o EXCEPT !.how = "activated",
                              !.probe = IF ~probe.ok THEN "err"
                                        ELSE IF probe.val THEN "true" ELSE "false"])

\* the join returned another state: connection.delete(), whose error is logged
connect_not_activated(hs, st, joined, o) ==
    \E state \in ConnectionStates \ {"Activated"}, deleteOk \in BOOLEAN :
        connect_create_portal(hs, IF deleteOk THEN st ELSE joined,
                              [o EXCEPT !.how = "not_activated",
                                        !.half = IF deleteOk THEN "deleted" ELSE "kept"])

connect ==
    /\ executing("Connect")
    /\ \E d \in delete_connection_if_exists(cur.ssid),
          deactivateOk \in StopCalls, deleteOk \in StopCalls :
        LET sp == IF portal_connection # None
                  THEN stop_portal(d.hotspots, portal_connection, deactivateOk, deleteOk)
                  ELSE [ok |-> TRUE, hotspots |-> d.hotspots, calls |-> <<>>]
            stopped == [out EXCEPT !.teardown = sp.calls]
        IN  IF ~sp.ok
            THEN connect_end("err", portal_connection, sp.hotspots, d.stations,
                             [stopped EXCEPT !.err = "stop_portal"])
            ELSE \E scan \in ScanOutcomes :
                LET got == get_access_points(scan)
                    o == [stopped EXCEPT !.scan = scan.val]
                    joined == [d.stations EXCEPT ![cur.ssid] = @ + 1]
                IN  IF ~got.ok
                    THEN connect_end("err", None, sp.hotspots, d.stations,
                                     [stopped EXCEPT !.err = "get_access_points"])
                    ELSE IF find_access_point(got.val, cur.ssid) # 0
                    THEN \/ connect_activated(sp.hotspots, joined, o)
                         \/ connect_not_activated(sp.hotspots, d.stations, joined, o)
                         \/ connect_create_portal(sp.hotspots, d.stations,
                                                  [o EXCEPT !.how = "join_err"])
                    ELSE connect_create_portal(sp.hotspots, d.stations,
                                               [o EXCEPT !.how = "not_found"])
    /\ UNCHANGED << frame, server_tx, dnsmasq, access_points, activated, helpers, nprocs >>

\* mutant: after an error the result is sent without the teardown
stop_skips_teardown_on_error ==
    /\ pc = "stopping"
    /\ IF loop_result = "err"
       THEN UNCHANGED << portal_connection, dnsmasq, hotspots, helpers >>
       ELSE \E deactivateOk \in StopCalls, deleteOk \in StopCalls :
               _stop(deactivateOk, deleteOk)
    /\ exit_tx' = Append(exit_tx, loop_result)
    /\ pc' = "done"
    /\ UNCHANGED << config, call, network_rx, server_tx, access_points, activated, loop_result,
                    stations, alloc, http, timer, trap, nsent, cur, prev, out, prevScan >>

\* NetworkCommandHandler::stop, called by run with run_loop's result
stop ==
    /\ pc = "stopping"
    /\ \E deactivateOk \in StopCalls, deleteOk \in StopCalls :
          _stop(deactivateOk, deleteOk)
    /\ exit_tx' = Append(exit_tx, loop_result)
    /\ pc' = "done"
    /\ UNCHANGED << config, call, network_rx, server_tx, access_points, activated, loop_result,
                    stations, alloc, http, timer, trap, nsent, cur, prev, out, prevScan >>

Next ==
    \/ new
    \/ spawn_trap_exit_signals
    \/ spawn_activity_timeout
    \/ http_networks
    \/ http_current
    \/ http_has_connection
    \/ http_connect
    \/ http_enable_ap
    \/ http_disable_ap
    \/ http_restart_ap
    \/ http_restart_ap_enable
    \/ http_recv
    \/ http_recv_err
    \/ receive_network_command
    \/ EnableAp
    \/ DisableAp
    \/ current
    \/ has_connection
    \/ activate
    \/ Timeout
    \/ Exit
    \/ connect
    \/ stop

Spec == Init /\ [][Next]_vars

\* the thread of process_network_commands: new, then run (run_loop and stop)
process_network_commands ==
    \/ new
    \/ receive_network_command
    \/ EnableAp
    \/ DisableAp
    \/ current
    \/ has_connection
    \/ activate
    \/ Timeout
    \/ Exit
    \/ connect
    \/ stop

\* server_rx.recv() in a handler returns, with a response or with the error
recv == http_recv \/ http_recv_err

\* the orchestrator's thread keeps running and every service call it makes
\* returns; a handler blocked in recv() is woken when a response or the
\* disconnection arrives.  Every step of the thread moves pc and every return
\* of recv() moves http.
LiveSpec ==
    /\ Spec
    /\ WF_pc(process_network_commands)
    /\ WF_http(recv)

TypeOK ==
    /\ pc \in {"new", "recv", "exec", "stopping", "done"}
    /\ portal_connection \in 0..nprofiles
    /\ dnsmasq \in 0..nprocs
    /\ DOMAIN hotspots \subseteq 1..nprofiles
    /\ helpers \subseteq 1..nprocs
    /\ Len(network_rx) <= MaxCmds
    /\ nsent <= MaxCmds
    /\ loop_result \in {"none", "ok", "err"}

\* ------------------------------------------- functions applied on their own

\* everything but call: the command loop does not move while a function is
\* applied on its own
program == << config, pc, network_rx, server_tx, exit_tx, portal_connection, dnsmasq,
              access_points, activated, loop_result, hotspots, stations, helpers,
              nprofiles, nprocs, http, timer, trap, nsent, cur, prev, out, prevScan >>

Calls(fn, args) ==
    { [fn |-> fn, args |-> a, ret |-> <<>>, returned |-> FALSE] : a \in args }

\* the lists the merge is handed: both the fresh list and the cache come out
\* of get_access_points_impl, so neither holds an undecodable SSID or the
\* portal's own
MergeSSIDs == {"home", "cafe", "office"}
FilteredLists ==
    UNION { [1..n -> { AP(s, f) : s \in MergeSSIDs, f \in {{}, {"WPA2"}} }] :
              n \in 0..MaxLen }

MergeInit == Start /\ call \in Calls("merge", FilteredLists \X FilteredLists)

\* the merge loop of get_access_points on a fresh list and a cache
merge_returns ==
    /\ call.fn = "merge"
    /\ ~call.returned
    /\ call' = [call EXCEPT !.ret = merge(call.args[1], call.args[2]),
                            !.returned = TRUE]
    /\ UNCHANGED program

MergeSpec == MergeInit /\ [][merge_returns]_vars

\* strings are sequences of characters; a pairing code is any string of up to
\* MaxCode characters, the padding character among them, or is not set
PairingChars == {"7", "_"}
PairingCodes == UNION { [1..n -> PairingChars] : n \in 0..MaxCode }
NotPresent == << "NotPresent" >>

Repeat(c, n) == [i \in 1..n |-> c]

\* PadStr::pad of the pad crate: a string of at least width columns is
\* returned as it is (cut to width when truncate is set); a shorter one gets
\* the missing columns on its right under Alignment::Left, on its left under
\* Alignment::Right, on both sides under the Middle alignments
pad(str, width, pad_char, alignment, truncate) ==
    IF Len(str) >= width
    THEN IF truncate THEN SubSeq(str, 1, width) ELSE str
    ELSE LET diff == width - Len(str)
             left_pad == CASE alignment = "Left" -> 0
                           [] alignment = "Right" -> diff
                           [] alignment = "Middle" -> diff \div 2
                           [] alignment = "MiddleRight" -> diff - (diff \div 2)
         IN  Repeat(pad_char, left_pad) \o str \o Repeat(pad_char, diff - left_pad)

\* get_config: env::var("PAIRING_CODE")?.pad(8, '_', Alignment::Right, false)
get_config(pairing_code) ==
    IF pairing_code = NotPresent THEN Err
    ELSE Ok([passphrase |-> pad(pairing_code, passphrase_width, "_", "Right", FALSE)])

ConfigInit == Start /\ call \in Calls("get_config", PairingCodes \cup {NotPresent})

get_config_returns ==
    /\ call.fn = "get_config"
    /\ ~call.returned
    /\ call' = [call EXCEPT !.ret = get_config(call.args), !.returned = TRUE]
    /\ UNCHANGED program

ConfigSpec == ConfigInit /\ [][get_config_returns]_vars

\* get_access_points_impl run statement by statement. The scan trigger may
\* fail; reads[i] is what the i-th read returns: i - 1 reads that the filter
\* empties, then one of any kind, for every i up to one past the retry budget.
ReadSeqs ==
    { [i \in 1..(retries_allowed + 1) |-> IF i <= n THEN e ELSE final] :
        n \in 0..(retries_allowed + 1),
        e \in {Ok(<<>>), Ok(<< AP(own_ssid, {}) >>)},
        final \in ReadOutcomes }

ReadInit ==
    /\ Start
    /\ call \in { [fn |-> "get_access_points_impl",
                   args |-> [request_scan |-> t, reads |-> r],
                   at |-> "request_scan", retries |-> 0, nreads |-> 0,
                   ret |-> <<>>, returned |-> FALSE] :
                     t \in BOOLEAN, r \in ReadSeqs }

\* if let Ok(_) = wifi_device.request_scan() { sleep }: the loop is entered
\* whatever the trigger returned
request_scan ==
    /\ call.fn = "get_access_points_impl"
    /\ call.at = "request_scan"
    /\ call' = [call EXCEPT !.at = "while"]
    /\ UNCHANGED program

\* mutant: the loop test lets one more read through
read_access_points_once_more ==
    /\ call.fn = "get_access_points_impl"
    /\ call.at = "while"
    /\ ~call.returned
    /\ call.retries <= retries_allowed
    /\ LET r == call.args.reads[call.nreads + 1]
       IN  call' = IF ~r.ok
                   THEN [call EXCEPT !.nreads = @ + 1, !.ret = Err, !.returned = TRUE]
                   ELSE IF retain(r.val) # <<>>
                   THEN [call EXCEPT !.nreads = @ + 1, !.ret = Ok(retain(r.val)),
                                     !.returned = TRUE]
                   ELSE [call EXCEPT !.nreads = @ + 1, !.retries = @ + 1]
    /\ UNCHANGED program

\* one pass of the while loop: read, filter, return what is left or retry
read_access_points ==
    /\ call.fn = "get_access_points_impl"
    /\ call.at = "while"
    /\ ~call.returned
    /\ call.retries < retries_allowed
    /\ LET r == call.args.reads[call.nreads + 1]
       IN  call' = IF ~r.ok
                   THEN [call EXCEPT !.nreads = @ + 1, !.ret = Err, !.returned = TRUE]
                   ELSE IF retain(r.val) # <<>>
                   THEN [call EXCEPT !.nreads = @ + 1, !.ret = Ok(retain(r.val)),
                                     !.returned = TRUE]
                   ELSE [call EXCEPT !.nreads = @ + 1, !.retries = @ + 1]
    /\ UNCHANGED program

\* the loop test fails: warn and return Ok(vec![])
give_up ==
    /\ call.fn = "get_access_points_impl"
    /\ call.at = "while"
    /\ ~call.returned
    /\ ~(call.retries < retries_allowed)
    /\ call' = [call EXCEPT !.ret = Ok(<<>>), !.returned = TRUE]
    /\ UNCHANGED program

ReadNext == request_scan \/ read_access_points \/ give_up

ReadSpec == ReadInit /\ [][ReadNext]_vars

\* wait_for_connectivity run statement by statement, for every timeout up to
\* MaxTimeout and every sequence of answers of get_connectivity, one more
\* than the probe can ask for
ProbeInit ==
    /\ Start
    /\ call \in { [fn |-> "wait_for_connectivity",
                   args |-> [timeout |-> t, polls |-> p],
                   total_time |-> 0, npolls |-> 0,
                   ret |-> <<>>, returned |-> FALSE] :
                     t \in 0..MaxTimeout,
                     p \in UNION { [1..(n + 2) -> Connectivity] : n \in 0..MaxTimeout } }
    /\ Len(call.args.polls) = call.args.timeout + 2

\* mutant: the timeout test counts the second that is about to be slept
get_connectivity_gives_up_early ==
    /\ call.fn = "wait_for_connectivity"
    /\ ~call.returned
    /\ LET connectivity == call.args.polls[call.npolls + 1]
       IN  call' =
             IF connectivity = "Err"
             THEN [call EXCEPT !.npolls = @ + 1, !.ret = Err, !.returned = TRUE]
             ELSE IF connectivity \in {"Full", "Limited"}
             THEN [call EXCEPT !.npolls = @ + 1, !.ret = Ok(TRUE), !.returned = TRUE]
             ELSE IF call.total_time + 1 >= call.args.timeout
             THEN [call EXCEPT !.npolls = @ + 1, !.ret = Ok(FALSE), !.returned = TRUE]
             ELSE [call EXCEPT !.npolls = @ + 1, !.total_time = @ + 1]
    /\ UNCHANGED program

\* one pass of the loop: poll, return on connectivity or on the timeout, else
\* sleep a second and count it
get_connectivity ==
    /\ call.fn = "wait_for_connectivity"
    /\ ~call.returned
    /\ LET connectivity == call.args.polls[call.npolls + 1]
       IN  call' =
             IF connectivity = "Err"
             THEN [call EXCEPT !.npolls = @ + 1, !.ret = Err, !.returned = TRUE]
             ELSE IF connectivity \in {"Full", "Limited"}
             THEN [call EXCEPT !.npolls = @ + 1, !.ret = Ok(TRUE), !.returned = TRUE]
             ELSE IF call.total_time >= call.args.timeout
             THEN [call EXCEPT !.npolls = @ + 1, !.ret = Ok(FALSE), !.returned = TRUE]
             ELSE [call EXCEPT !.npolls = @ + 1, !.total_time = @ + 1]
    /\ UNCHANGED program

ProbeSpec == ProbeInit /\ [][get_connectivity]_vars

\* one access point, with any set of security flags, listed in a Networks
\* reply and joined by a Connect with any identity and passphrase
Security == {"ENTERPRISE", "WPA2", "WPA", "WEP"}

SecurityInit ==
    /\ Start
    /\ call \in Calls("security",
                       [security : SUBSET Security,
                        identity : {"", "user"},
                        passphrase : {"", "secret"}])

security_returns ==
    /\ call.fn = "security"
    /\ ~call.returned
    /\ LET access_point == AP("home", call.args.security)
       IN  call' = [call EXCEPT
                      !.ret = [network |-> get_network_info(access_point),
                               credentials |->
                                   init_access_point_credentials(
                                       access_point, call.args.identity,
                                       call.args.passphrase)],
                      !.returned = TRUE]
    /\ UNCHANGED program

SecuritySpec == SecurityInit /\ [][security_returns]_vars

\* the command loop, started with the timer disabled or enabled
TimerInit ==
    /\ config \in [activity_timeout : {0, 30}]
    /\ Boot
    /\ call = NoCall

TimerSpec == TimerInit /\ [][Next]_vars

\* ----------------------------------------------------------------- claims

\* a handler's receive failed and it reported the error on the exit channel
ServerExits ==
    /\ http \in {"networks", "current", "has_connection"}
    /\ http' = "idle"
    /\ server_tx = <<>>
    /\ exit_tx' = Append(exit_tx, "err")

\* the step on which the handler of command c returns
Executed(c) == executing(c) /\ pc' # "exec"

\* number of entries of a list that carry this SSID
Occurrences(list, ssid) == Cardinality({ i \in 1..Len(list) : list[i].ssid = ssid })

\* C1: in every reachable state at most one hotspot profile created by the
\* orchestrator exists in the network-management service, whatever the
\* teardown calls return.
C1_AtMostOneHotspotProfile == Cardinality(DOMAIN hotspots) <= 1

\* C2: an EnableAp processed right after an EnableAp changes nothing, creates
\* no profile and starts no helper, and leaves exactly one hotspot profile and
\* exactly one helper process.
C2_EnableApIdempotent ==
    [][ (Executed("EnableAp") /\ prev = "EnableAp") =>
            /\ pc' = "recv"
            /\ UNCHANGED << handler, service, alloc, server_tx, loop_result, exit_tx >>
            /\ Cardinality(DOMAIN hotspots') = 1
            /\ Cardinality(helpers') = 1 ]_vars

\* C3: DisableAp always leaves the orchestrator with no hotspot profile handle
\* and no helper handle and the loop waiting for the next command, whatever
\* the teardown calls return; a DisableAp right after a DisableAp changes
\* nothing at all.
C3_DisableApIdempotent ==
    [][ Executed("DisableAp") =>
            /\ pc' = "recv"
            /\ portal_connection' = None
            /\ dnsmasq' = None
            /\ UNCHANGED << loop_result, exit_tx >>
            /\ (portal_connection = None /\ dnsmasq = None =>
                    UNCHANGED << handler, service, alloc, server_tx >>)
            /\ (prev = "DisableAp" =>
                    UNCHANGED << handler, service, alloc, server_tx >>) ]_vars

\* a second DisableAp has run after a first one whose deactivate call failed
C3_Witness ==
    /\ pc = "recv"
    /\ cur.cmd = "DisableAp"
    /\ prev = "DisableAp"
    /\ portal_connection = None
    /\ DOMAIN hotspots # {}

\* C4: the latch is unset at construction and only an Activate sets it; a
\* Timeout processed while it is unset ends the loop with success; once set it
\* stays set, and a Timeout processed then changes nothing and the loop goes on.
C4_TimeoutAndLatch ==
    [][ /\ (pc = "new" => ~activated')
        /\ (~activated /\ activated' => executing("Activate"))
        /\ (Executed("Activate") => activated')
        /\ (activated => activated')
        /\ (Executed("Timeout") /\ ~activated =>
                pc' = "stopping" /\ loop_result' = "ok")
        /\ (Executed("Timeout") /\ activated =>
                /\ pc' = "recv"
                /\ UNCHANGED << handler, service, alloc, server_tx, loop_result, exit_tx >>)
      ]_vars

\* a Timeout was processed after an Activate and the loop went on
C4_Witness ==
    /\ pc = "recv"
    /\ cur.cmd = "Timeout"
    /\ prev = "Activate"
    /\ activated
    /\ loop_result = "none"

\* C5: Exit ends the loop with success whatever the latch; a command leaves the
\* channel only when the loop is at its receive, so an Exit that arrives during
\* an execution waits for it to return; and after the loop has ended nothing is
\* received or executed any more.
C5_ExitTerminates ==
    [][ /\ (Executed("Exit") => pc' = "stopping" /\ loop_result' = "ok")
        /\ (executing("Exit") => pc' # "recv")
        /\ (cur' # cur \/ Len(network_rx') < Len(network_rx) =>
                /\ pc = "recv" /\ pc' = "exec"
                /\ network_rx # <<>>
                /\ cur' = Head(network_rx)
                /\ network_rx' = Tail(network_rx))
        /\ (pc \in {"stopping", "done"} =>
                /\ pc' \in {"stopping", "done"}
                /\ UNCHANGED << cur, out, access_points, activated, loop_result >>
                /\ Len(server_tx') <= Len(server_tx))
        /\ (pc = "done" =>
                /\ UNCHANGED << handler, service, alloc >>
                /\ (exit_tx' = exit_tx \/ ServerExits))
      ]_vars

\* Exit was processed with the latch set and a command behind it was never run
C5_Witness ==
    /\ pc = "done"
    /\ cur.cmd = "Exit"
    /\ activated
    /\ network_rx # <<>>
    /\ exit_tx = << "ok" >>

\* C6: a Connect whose join returns the Activated state ends the loop with
\* success whether the connectivity probe returns true, returns false or fails.
C6_ConnectActivatedTerminates ==
    [][ (Executed("Connect") /\ out'.how = "activated") =>
            /\ out'.probe \in {"true", "false", "err"}
            /\ pc' = "stopping"
            /\ loop_result' = "ok"
            /\ out'.err = "none" ]_vars

\* a join was activated, the probe's service call failed, the process ended ok
C6_Witness ==
    /\ pc = "done"
    /\ cur.cmd = "Connect"
    /\ out.how = "activated"
    /\ out.probe = "err"
    /\ exit_tx = << "ok" >>

\* a Connect that found no access point, whose join call failed or whose join
\* returned a state other than Activated
FailedJoin == {"not_found", "join_err", "not_activated"}

\* C7 as claimed: such a Connect never ends the loop and always leaves a
\* hotspot profile, the half-made profile of a non-activated join being deleted.
C7_FailedConnectKeepsLoop ==
    [][ (Executed("Connect") /\ out'.how \in FailedJoin) =>
            /\ pc' = "recv"
            /\ portal_connection' # None
            /\ (out'.how = "not_activated" => out'.half = "deleted") ]_vars

\* C7 amended: such a Connect goes on to create_portal. When that succeeds the
\* loop continues with a fresh activated hotspot profile; when it fails the
\* loop ends with the error and without a handle. After a non-activated join
\* the deletion of the half-made profile is attempted first: when it succeeds
\* no new profile for the SSID is left, when it fails exactly one is.
C7_FailedConnectReraises ==
    [][ (Executed("Connect") /\ out'.how \in FailedJoin) =>
            /\ \/ /\ out'.err = "none"
                  /\ pc' = "recv"
                  /\ loop_result' = "none"
                  /\ portal_connection' = nprofiles'
                  /\ nprofiles' = nprofiles + 1
                  /\ portal_connection' \in DOMAIN hotspots'
                  /\ hotspots'[portal_connection'] = "activated"
               \/ /\ out'.err = "create_portal"
                  /\ pc' = "stopping"
                  /\ loop_result' = "err"
                  /\ portal_connection' = None
                  /\ nprofiles' = nprofiles
            /\ portal_connection \notin DOMAIN hotspots'
            /\ (out'.how = "not_activated") = (out'.half # "none")
            /\ (out'.half # "kept" => stations'[cur.ssid] <= stations[cur.ssid])
            /\ (out'.half = "kept" => stations'[cur.ssid] <= stations[cur.ssid] + 1)
            /\ (out'.half = "kept" => stations'[cur.ssid] >= 1) ]_vars

\* a non-activated join whose profile was deleted, portal raised again
C7_Witness ==
    /\ pc = "recv"
    /\ cur.cmd = "Connect"
    /\ out.how = "not_activated"
    /\ out.half = "deleted"
    /\ portal_connection # None
    /\ prev # "None"

\* C8 as claimed: the loop ends only by processing Exit or Timeout.
C8_OnlyExitOrTimeoutTerminate ==
    loop_result # "none" => cur.cmd \in {"Exit", "Timeout"}

\* C8 amended: when a handler returns, the loop ends exactly when the command
\* was Exit, or Timeout with the latch unset, or a Connect whose join was
\* activated (all three with success), or a service call of the handler failed
\* (with the error); in every other case it waits for the next command.
C8_TerminationCauses ==
    [][ pc = "exec" /\ pc' # "exec" =>
            LET graceful == \/ cur.cmd = "Exit"
                            \/ cur.cmd = "Timeout" /\ ~activated
                            \/ cur.cmd = "Connect" /\ out'.how = "activated"
                fatal == out'.err # "none"
            IN  /\ ~(graceful /\ fatal)
                /\ graceful => pc' = "stopping" /\ loop_result' = "ok"
                /\ fatal => pc' = "stopping" /\ loop_result' = "err"
                /\ ~graceful /\ ~fatal => pc' = "recv" /\ loop_result' = "none" ]_vars

\* three commands, none of them Exit or Timeout, were processed and the loop
\* is at its receive again
C8_Witness ==
    /\ pc = "recv"
    /\ nsent = MaxCmds
    /\ network_rx = <<>>
    /\ timer = "armed"
    /\ trap = "waiting"
    /\ cur.cmd = "Connect"

\* C9: an Activate processed with an empty cache replies with the filtered scan
\* result itself: as many entries, in the same order, each with its SSID and
\* its security class.
C9_ActivateFreshCache ==
    [][ (Executed("Activate") /\ access_points = <<>> /\ pc' = "recv") =>
            /\ Len(out'.reply) = 1
            /\ server_tx' = server_tx \o out'.reply
            /\ out'.reply[1].type = "Networks"
            /\ Len(out'.reply[1].networks) = Len(out'.scan)
            /\ \A i \in 1..Len(out'.scan) :
                   /\ out'.reply[1].networks[i].ssid = out'.scan[i].ssid
                   /\ out'.reply[1].networks[i].security
                          = get_network_security(out'.scan[i]) ]_vars

\* Activate ran on an empty cache with a scan of two entries
C9_Witness ==
    /\ pc = "recv"
    /\ cur.cmd = "Activate"
    /\ access_points = <<>>
    /\ Len(out.scan) = 2
    /\ Len(out.reply) = 1

\* C10: when two Activates in a row scan the same non-empty filtered list, the
\* second reply holds every SSID of the list at least twice as often as the
\* list does.
C10_SecondActivateDuplicates ==
    [][ ( /\ Executed("Activate")
          /\ prev = "Activate"
          /\ pc' = "recv"
          /\ out'.scan # <<>>
          /\ out'.scan = prevScan ) =>
            \A i \in 1..Len(out'.scan) :
                Occurrences(out'.reply[1].networks, out'.scan[i].ssid)
                    >= 2 * Occurrences(out'.scan, out'.scan[i].ssid) ]_vars

\* C11: the merged list is the fresh list followed by, in cache order, the
\* cached entries whose SSID occurs in the fresh list; an SSID of both lists
\* occurs once per fresh entry plus once per cached entry, an SSID of the
\* cache alone does not occur, an SSID of the fresh list alone occurs as often
\* as in the fresh list.
C11_MergeFreshThenPersisting ==
    (call.fn = "merge" /\ call.returned) =>
        LET fresh == call.args[1]
            cache == call.args[2]
            persisting == SelectSeq(cache, LAMBDA x : Occurrences(fresh, x.ssid) > 0)
        IN  /\ call.ret = fresh \o persisting
            /\ \A s \in MergeSSIDs :
                   Occurrences(call.ret, s) =
                       IF Occurrences(fresh, s) = 0 THEN 0
                       ELSE Occurrences(fresh, s) + Occurrences(cache, s)

\* merged: one SSID of both lists, one of the fresh list alone, one of the
\* cache alone
C11_Witness ==
    /\ call.fn = "merge"
    /\ call.returned
    /\ \E both \in MergeSSIDs, gone \in MergeSSIDs, new_ssid \in MergeSSIDs :
          /\ Occurrences(call.args[1], both) > 0
          /\ Occurrences(call.args[2], both) > 0
          /\ Occurrences(call.args[1], gone) = 0
          /\ Occurrences(call.args[2], gone) > 0
          /\ Occurrences(call.args[1], new_ssid) > 0
          /\ Occurrences(call.args[2], new_ssid) = 0
          /\ Len(call.ret) = 3

NoOwnSSID(list) == \A i \in 1..Len(list) : list[i].ssid # own_ssid

\* C12: in every reachable state the cache holds no entry with the portal's
\* own SSID, and no Networks reply, waiting in the response channel or sent by
\* the last command, holds one, whatever the reads of the scanner returned.
C12_OwnSSIDNeverListed ==
    /\ NoOwnSSID(access_points)
    /\ \A i \in 1..Len(server_tx) :
           server_tx[i].type = "Networks" => NoOwnSSID(server_tx[i].networks)
    /\ \A i \in 1..Len(out.reply) :
           out.reply[i].type = "Networks" => NoOwnSSID(out.reply[i].networks)

\* the only read that yields two networks holds the portal's own SSID between
\* them: it was read at start-up and again by an Activate, whose reply lists
\* the two fresh and the two cached entries
C12_Witness ==
    /\ cur.cmd = "Activate"
    /\ pc = "recv"
    /\ Len(access_points) = 2
    /\ Len(out.scan) = 2
    /\ Len(out.reply) = 1
    /\ Len(out.reply[1].networks) = 4

\* C13: commands leave the channel one at a time and only at the loop's
\* receive, which is not reached before the handler of the command before has
\* returned; each command received is the one that entered the channel right
\* after the one received before it, so none is skipped, reordered or taken
\* twice; a send puts its command behind all that wait and disturbs no
\* execution; the channel always holds the commands not yet received, in the
\* order of their entry.
C13_SerialFifo ==
    [][ /\ (cur' # cur =>
                /\ pc = "recv" /\ pc' = "exec"
                /\ cur'.seq = cur.seq + 1
                /\ cur' = Head(network_rx)
                /\ network_rx' = Tail(network_rx)
                /\ UNCHANGED << handler, service, alloc, server_tx, exit_tx >>)
        /\ (network_rx' # network_rx /\ cur' = cur =>
                /\ Len(network_rx') = Len(network_rx) + 1
                /\ SubSeq(network_rx', 1, Len(network_rx)) = network_rx
                /\ network_rx'[Len(network_rx')].seq = nsent + 1
                /\ nsent' = nsent + 1
                /\ UNCHANGED << pc, handler, service, alloc, server_tx, exit_tx, out >>)
        /\ (pc # "recv" => cur' = cur /\ Len(network_rx') >= Len(network_rx))
        /\ \A i \in 1..Len(network_rx') : network_rx'[i].seq = cur'.seq + i
        /\ nsent' = cur'.seq + Len(network_rx')
      ]_vars

\* the handlers' Activate, the timer's Timeout and the signal bridge's Exit
\* were in the channel together and were processed in the order of entry
C13_Witness ==
    /\ pc = "done"
    /\ cur.cmd = "Exit"
    /\ cur.seq = 3
    /\ prev = "Timeout"
    /\ activated
    /\ timer = "fired"
    /\ trap = "sent"

\* C14: one handler at most waits for a response; a response is in the
\* channel only while a handler waits, there is never more than one, and it
\* is of the variant that handler matches on, so whatever a handler takes is
\* the reply to its own command and no IncorrectCommand branch is taken.
C14_ResponseMatchesWaitingHandler ==
    /\ Len(server_tx) <= 1
    /\ server_tx # <<>> =>
           /\ http \in {"networks", "current", "has_connection"}
           /\ server_tx[1].type = Expected(http)

\* the /networks handler was served and has returned; the reply to the
\* /current handler after it waits in the channel
C14_Witness ==
    /\ http = "current"
    /\ server_tx # <<>>
    /\ server_tx[1].type = "Current"
    /\ prev = "Activate"
    /\ nsent >= 2

\* the commands that are answered
Answered == {"Current", "HasConnection", "Activate"}

\* C15: the step on which a handler returns appends to the response channel
\* what that handler sent and nothing else: one response of the matching
\* variant when Current, HasConnection or Activate returned without error,
\* none when it failed, none for every other command; no other step of the
\* orchestrator sends a response.
C15_AtMostOneResponsePerCommand ==
    [][ /\ (pc = "exec" /\ pc' # "exec" =>
                /\ server_tx' = server_tx \o out'.reply
                /\ Len(out'.reply) <= 1
                /\ (cur.cmd \in Answered /\ out'.err = "none" =>
                        /\ Len(out'.reply) = 1
                        /\ out'.reply[1].type =
                              CASE cur.cmd = "Current" -> "Current"
                                [] cur.cmd = "HasConnection" -> "HasConnection"
                                [] cur.cmd = "Activate" -> "Networks")
                /\ (cur.cmd \notin Answered \/ out'.err # "none" => out'.reply = <<>>))
        /\ (pc # "exec" => Len(server_tx') <= Len(server_tx))
      ]_vars

\* a DisableAp was not answered, the Activate after it was answered once
C15_Witness ==
    /\ cur.cmd = "Activate"
    /\ prev = "DisableAp"
    /\ pc = "recv"
    /\ Len(server_tx) = 1
    /\ out.reply = server_tx

C17_TeardownBestEffort ==
    [][ ( /\ pc = "exec" /\ pc' # "exec"
          /\ cur.cmd \in {"DisableAp", "Connect"}
          /\ portal_connection # None ) =>
            /\ out'.teardown = << "deactivate", "delete" >>
            /\ out'.err # "stop_portal"
            /\ (out'.err = "none" => pc' = "recv" \/ out'.how = "activated") ]_vars

\* C18: the reply to Current has apmode true exactly when no hotspot profile
\* handle is held as the command is processed and connected true exactly when
\* the device state read is Activated; processing Current changes no field of
\* the orchestrator and nothing in the service.
C18_CurrentReply ==
    [][ Executed("Current") =>
            /\ UNCHANGED << handler, service, alloc, exit_tx >>
            /\ (out'.err = "none" =>
                    /\ pc' = "recv"
                    /\ out'.how \in DeviceStates
                    /\ server_tx' = Append(server_tx, out'.reply[1])
                    /\ out'.reply[1].type = "Current"
                    /\ out'.reply[1].apmode = (portal_connection = None)
                    /\ out'.reply[1].connected = (out'.how = "Activated")) ]_vars

\* Current was answered apmode = false, connected = true while a hotspot
\* profile was held
C18_Witness ==
    /\ cur.cmd = "Current"
    /\ pc = "recv"
    /\ portal_connection # None
    /\ out.how = "Activated"
    /\ out.reply = << [type |-> "Current", apmode |-> FALSE, connected |-> TRUE] >>

\* C19: until the first command is received, a constructed orchestrator holds
\* no hotspot profile and no helper, and has created none, when a wireless
\* profile that is no hotspot was defined at construction; otherwise it holds
\* the one hotspot profile and the one helper it created, both alive; the
\* latch is unset in both cases.
C19_InitialState ==
    (pc = "recv" /\ cur = NoCmd) =>
        /\ ~activated
        /\ IF \E s \in DOMAIN stations : stations[s] > 0
           THEN /\ portal_connection = None /\ dnsmasq = None
                /\ DOMAIN hotspots = {} /\ helpers = {}
                /\ nprofiles = 0 /\ nprocs = 0
           ELSE /\ portal_connection = 1 /\ dnsmasq = 1
                /\ DOMAIN hotspots = {1} /\ hotspots[1] = "activated"
                /\ helpers = {1}
                /\ nprofiles = 1 /\ nprocs = 1

\* constructed with a profile for "home" defined: no portal, nothing created
C19_Witness ==
    /\ pc = "recv"
    /\ cur = NoCmd
    /\ stations["home"] = 1
    /\ portal_connection = None
    /\ dnsmasq = None
    /\ http = "idle"

\* C20: the passphrase get_config derives is the pairing code followed by as
\* many '_' as it lacks to a length of 8, and the pairing code itself when it
\* has 8 characters or more.
C20_PassphraseRightPadded ==
    (call.fn = "get_config" /\ call.returned /\ call.ret.ok) =>
        LET code == call.args
            missing == IF Len(code) >= passphrase_width THEN 0
                       ELSE passphrase_width - Len(code)
        IN  call.ret.val.passphrase = code \o Repeat("_", missing)

\* C21: whenever the loop waits for the next command, the hotspot profile
\* handle and the helper handle are both held or both absent, and a helper
\* held is running.
C21_ProfileAndHelperTogether ==
    pc = "recv" =>
        /\ (portal_connection = None) = (dnsmasq = None)
        /\ (dnsmasq # None => dnsmasq \in helpers)

\* C22: when a Connect has got as far as its scan, the hotspot profile it held
\* is deleted and the helper it held is no longer running; the profiles with
\* the requested SSID were asked to be deleted before.
C22_ConnectTearsDownSession ==
    [][ ( /\ Executed("Connect")
          /\ out'.err # "stop_portal" ) =>
            /\ portal_connection \notin DOMAIN hotspots'
            /\ (portal_connection # None =>
                    out'.teardown = << "deactivate", "delete" >>)
            /\ (dnsmasq # None => dnsmasq \notin helpers') ]_vars

SSIDs(list) == { list[i].ssid : i \in 1..Len(list) }

\* C23: after an Activate or a Connect whose scan completed, the cache holds
\* exactly the SSIDs of that scan's filtered result.
C23_CacheRefreshed ==
    [][ ( \/ Executed("Activate") /\ out'.how = "ok"
          \/ Executed("Connect") /\ out'.how # "none" ) =>
            SSIDs(access_points') = SSIDs(out'.scan) ]_vars

\* the first of the first retries_allowed reads that fails or that the filter
\* does not empty, 0 when there is none
FirstDecisive(reads) ==
    LET decisive == { i \in 1..retries_allowed :
                        ~reads[i].ok \/ retain(reads[i].val) # <<>> }
    IN  IF decisive = {} THEN 0
        ELSE CHOOSE i \in decisive : \A j \in decisive : i <= j

\* C24: the read loop makes one read per pass and never more than 10; it is
\* entered whether the scan trigger failed or not; it returns at the first
\* read the filter does not empty, with that filtered list (a failing read
\* returns its error at once), and after 10 reads emptied by the filter it
\* returns the empty list as a success; until it has returned, a further
\* step is always possible, and what it returns is what the command loop's
\* handlers are handed.
C24_ReadLoopBounded ==
    call.fn = "get_access_points_impl" =>
        LET reads == call.args.reads
            k == FirstDecisive(reads)
        IN  /\ call.nreads <= retries_allowed
            /\ call.retries <= call.nreads
            /\ (~call.returned => call.retries = call.nreads)
            /\ (~call.returned =>
                    ENABLED (request_scan \/ read_access_points \/ give_up))
            /\ (call.returned =>
                    /\ call.nreads = IF k = 0 THEN retries_allowed ELSE k
                    /\ (k = 0 => call.ret = Ok(<<>>))
                    /\ (k # 0 /\ reads[k].ok =>
                            call.ret = Ok(retain(reads[k].val)) /\ call.ret.val # <<>>)
                    /\ (k # 0 /\ ~reads[k].ok => call.ret = Err)
                    /\ call.ret \in ScanOutcomes)

\* the trigger failed, ten reads held only the portal's own SSID, the empty
\* list was returned as a success
C24_Witness ==
    /\ call.fn = "get_access_points_impl"
    /\ call.returned
    /\ ~call.args.request_scan
    /\ call.nreads = retries_allowed
    /\ call.args.reads[1] = Ok(<< AP(own_ssid, {}) >>)
    /\ call.ret = Ok(<<>>)

\* C25: the probe polls once per second counted and never more than T + 1
\* times; true is returned at the first poll that reports full or limited
\* connectivity; false is returned only at poll T + 1, when T seconds have
\* been counted and no poll reported connectivity; a failing poll returns its
\* error at once; until it has returned, a further poll is always possible.
C25_ProbeBounded ==
    call.fn = "wait_for_connectivity" =>
        LET T == call.args.timeout
            polls == call.args.polls
            up(i) == polls[i] \in {"Full", "Limited"}
        IN  /\ call.npolls <= T + 1
            /\ call.total_time <= T
            /\ call.npolls = call.total_time + (IF call.returned THEN 1 ELSE 0)
            /\ \A i \in 1..call.total_time : ~up(i) /\ polls[i] # "Err"
            /\ (~call.returned => ENABLED get_connectivity)
            /\ (call.returned =>
                    /\ (call.ret = Ok(TRUE)) = up(call.npolls)
                    /\ (call.ret = Err) = (polls[call.npolls] = "Err")
                    /\ (call.ret = Ok(FALSE)) =
                          (~up(call.npolls) /\ polls[call.npolls] # "Err")
                    /\ (call.ret = Ok(FALSE) =>
                            call.total_time = T /\ call.npolls = T + 1)
                    /\ call.ret = wait_for_connectivity(polls, T))

\* with T = MaxTimeout: T seconds without connectivity, then Limited at poll
\* T + 1 returned true
C25_Witness ==
    /\ call.fn = "wait_for_connectivity"
    /\ call.returned
    /\ call.args.timeout = MaxTimeout
    /\ call.npolls = MaxTimeout + 1
    /\ call.args.polls[MaxTimeout + 1] = "Limited"
    /\ call.ret = Ok(TRUE)

\* C29: for every set of security flags the class listed and the credentials
\* built go together, by the precedence enterprise > WPA or WPA2 > WEP > open:
\* "enterprise" with Enterprise{identity, passphrase}, "wpa" with
\* Wpa{passphrase}, "wep" with Wep{passphrase}, "none" with no credentials,
\* each carrying the identity and passphrase of the request.
C29_SecurityClassMatchesCredentials ==
    (call.fn = "security" /\ call.returned) =>
        LET flags == call.args.security
            class == IF "ENTERPRISE" \in flags THEN "enterprise"
                     ELSE IF flags \cap {"WPA", "WPA2"} # {} THEN "wpa"
                     ELSE IF "WEP" \in flags THEN "wep"
                     ELSE "none"
            creds == call.ret.credentials
        IN  /\ call.ret.network.security = class
            /\ (class = "enterprise") = (creds.type = "Enterprise")
            /\ (class = "wpa") = (creds.type = "Wpa")
            /\ (class = "wep") = (creds.type = "Wep")
            /\ (class = "none") = (creds.type = "None")
            /\ (creds.type = "Enterprise" =>
                    creds = [type |-> "Enterprise", identity |-> call.args.identity,
                             passphrase |-> call.args.passphrase])
            /\ (creds.type \in {"Wpa", "Wep"} =>
                    creds = [type |-> creds.type, passphrase |-> call.args.passphrase])
            /\ (creds.type = "None" => creds = [type |-> "None"])

\* an access point with both the WEP and the WPA flag: listed as "wpa",
\* joined with Wpa{passphrase}
C29_Witness ==
    /\ call.fn = "security"
    /\ call.returned
    /\ call.args.security = {"WEP", "WPA"}
    /\ call.args.passphrase = "secret"
    /\ call.ret.network.security = "wpa"
    /\ call.ret.credentials = [type |-> "Wpa", passphrase |-> "secret"]

\* the number of commands c waiting in a queue
Waiting(queue, c) == Cardinality({ i \in DOMAIN queue : queue[i].cmd = c })

\* C26 as stated: with a nonzero timeout exactly one Timeout has been sent
\* by the time the process ends.
C26_ExactlyOneTimeout ==
    (pc = "done" /\ config.activity_timeout # 0) => timer = "fired"

\* C26: the timer is armed only by a startup that succeeded with a nonzero
\* timeout, so with timeout 0 no Timeout is ever sent; an armed timer sends
\* one Timeout when it fires and none after, and none at all when the process
\* ends first; the termination signal sends one Exit and no other Exit is
\* ever sent.  Nothing else puts a Timeout or an Exit on the command channel.
C26_TimerAndSignalSendOnce ==
    [][ LET timeouts == Waiting(network_rx', "Timeout") - Waiting(network_rx, "Timeout")
            exits == Waiting(network_rx', "Exit") - Waiting(network_rx, "Exit")
            received == Len(network_rx') < Len(network_rx)
        IN  /\ timer' # "off" => config.activity_timeout # 0
            /\ timer' # timer =>
                   \/ timer = "off" /\ timer' = "armed" /\ pc = "new" /\ pc' = "recv"
                   \/ timer = "armed" /\ timer' = "fired" /\ timeouts = 1
            /\ ~received => timeouts \in {0, 1} /\ exits \in {0, 1}
            /\ (~received /\ timeouts = 1) =>
                   /\ timer = "armed" /\ timer' = "fired"
                   /\ network_rx'[Len(network_rx')].cmd = "Timeout"
            /\ trap' # trap => trap = "waiting" /\ trap' = "sent" /\ exits = 1
            /\ (~received /\ exits = 1) =>
                   /\ trap = "waiting" /\ trap' = "sent"
                   /\ network_rx'[Len(network_rx')].cmd = "Exit"
            /\ received => timeouts <= 0 /\ exits <= 0
      ]_vars

\* the timer has fired and the signal has arrived: one Timeout and one Exit
\* are waiting
C26_Witness ==
    /\ config.activity_timeout # 0
    /\ timer = "fired"
    /\ trap = "sent"
    /\ Waiting(network_rx, "Timeout") = 1
    /\ Waiting(network_rx, "Exit") = 1

\* C27: once the orchestrator has ended, on whatever path, no hotspot
\* profile made by the process is still active and no helper process started
\* by it is still running.
C27_NothingLeftBehind ==
    pc = "done" =>
        /\ helpers = {}
        /\ \A i \in DOMAIN hotspots : hotspots[i] # "activated"

\* a handler has sent its command and is blocked in server_rx.recv()
Blocked == http \in {"networks", "current", "has_connection"}

\* C28: a handler blocked on the response channel returns in the end, with
\* the reply or, when the loop ended first, with the receive error: at no
\* point of a run does a handler stay blocked from then on.
C28_BlockedHandlerReturns == []<>(~Blocked)

\* Exit was processed while the /networks handler's Activate waited behind
\* it: the loop ended with success, the Activate was never received, and the
\* handler returned with the receive error, which it put on the exit channel
C28_Witness ==
    /\ http = "idle"
    /\ pc = "done"
    /\ cur.cmd = "Exit"
    /\ Waiting(network_rx, "Activate") = 1
    /\ exit_tx = << "ok", "err" >>

====
